---- MODULE Spec2Model ----
(***************************************************************************)
(* Model of the Zoho relay backend: the access-token cache                 *)
(* (getZohoAccessToken / validateZohoToken / GET /api/zoho/refresh-token)  *)
(* of src/server.js and src/index.js, and the webhook fan-out of the       *)
(* write routes.                                                           *)
(*                                                                         *)
(* Node runs one callback at a time: every action below is one run of a    *)
(* handler from one await to the next (or to its return / throw).          *)
(***************************************************************************)
EXTENDS Integers, Sequences, FiniteSets, Bags, TLC

\* ------------------------------------------------------------------ bounds
MaxInFlight == 2         \* calls of getZohoAccessToken suspended at one time
MaxTokens == 2           \* access tokens the upstream issues in one run
MaxTicks == 2            \* clock advances in one run
MaxTargets == 3          \* longest webhook list
MaxRecords == 2          \* records the CRM returns for one search
MaxEnvLen == 4           \* longest configured list, in characters

\* --------------------------------------------------------------- constants
Null == 0                \* JS null (let zohoAccessToken = null)
Undefined == -1          \* JS undefined (response.data.access_token absent)

\* (variant of TokenLifetimeMs: the full hour the upstream grants)
TokenLifetimeHour == 60 * 60 * 1000

\* tokenExpiryTime = now + 55 * 60 * 1000
TokenLifetimeMs == 55 * 60 * 1000

\* The clock advances by one millisecond or by one millisecond less than
\* 55 minutes, so that T+55min-1, T+55min and T+55min+1 are all reached.
TickSteps == {1, 55 * 60 * 1000 - 1}

VARIABLES
  variant,           \* "server" (src/server.js) or "index" (src/index.js)
  zohoAccessToken,   \* module variable: Null, Undefined or a token
  tokenExpiryTime,   \* module variable: Null or a time in ms
  clock,             \* Date.now()
  ticks,             \* number of clock advances so far
  issued,            \* tokens the upstream has issued so far (they are 1..issued)
  revoked,           \* tokens the upstream no longer accepts
  envWebhookUrls,    \* process.env.WEBHOOK_URLS / VENDOR_WEBHOOK_URLS
  cachedAt,          \* history: clock reading of the call that filled the cache
  calls,             \* bag of the calls of getZohoAccessToken suspended at an await
  last               \* the call that has just returned or thrown, NoCall otherwise

cacheVars == <<zohoAccessToken, tokenExpiryTime, cachedAt>>
envVars == <<clock, ticks, issued, revoked, envWebhookUrls>>
tokenVars == <<variant, cacheVars, envVars, calls, last>>

\* One activation of getZohoAccessToken:
\*   kind        the entry point, "acquire" or "refresh" (GET /api/zoho/refresh-token)
\*   pc          "probe" (awaiting validateZohoToken), "exchange" (awaiting
\*               the token endpoint), "done" (returned), "failed" (threw)
\*   now         const now = Date.now()
\*   probed      the argument of validateZohoToken, Null if it was not called
\*   probeReply  history: what validateZohoToken returned, "none", "ok", "fail"
\*   exch        history: token-exchange calls this activation has made
\*   staleTok    history: the cached token if the upstream had already
\*               revoked it when the activation began, else Null
\*   ret         the returned value
\*   err         the message of the error caught or thrown
Call(k, p, n, pr, rep, ex, st, rt, e) ==
  [kind |-> k, pc |-> p, now |-> n, probed |-> pr, probeReply |-> rep,
   exch |-> ex, staleTok |-> st, ret |-> rt, err |-> e]

NoCall == Call("none", "none", Null, Null, "none", 0, Null, Null, "")

InFlight == BagToSet(calls)
One(r) == SetToBag({r})

\* JS truthiness of the two module variables
Truthy(v) == v # Null /\ v # Undefined

\* (variant of CacheLive with an inclusive expiry test)
CacheLiveInclusive(tok, exp, t) == Truthy(tok) /\ Truthy(exp) /\ t <= exp

\* zohoAccessToken && tokenExpiryTime && now < tokenExpiryTime
CacheLive(tok, exp, t) == Truthy(tok) /\ Truthy(exp) /\ t < exp

\* validateZohoToken: the upstream answers 200 only for a token it issued and
\* still accepts; everything else (401, transport error, timeout) is false.
UpstreamAccepts(tok) == tok \in 1..issued /\ tok \notin revoked

\* The cached token, if the upstream has already revoked it.
Stale(tok) == IF tok \in revoked THEN tok ELSE Null

InitToken ==
  /\ zohoAccessToken = Null
  /\ tokenExpiryTime = Null
  /\ cachedAt = Null
  /\ clock = 1
  /\ ticks = 0
  /\ issued = 0
  /\ revoked = {}
  /\ calls = EmptyBag
  /\ last = NoCall

\* ------------------------------------------------------------- environment
Tick ==
  /\ last = NoCall
  /\ ticks < MaxTicks
  /\ \E d \in TickSteps : clock' = clock + d
  /\ ticks' = ticks + 1
  /\ UNCHANGED <<variant, cacheVars, issued, revoked, envWebhookUrls, calls, last>>

\* A token some activation can still read: the cached one, or one being probed.
Held(t) == t = zohoAccessToken \/ \E r \in InFlight : r.probed = t

\* The upstream revokes (or lets lapse) a token it issued. Only a token that
\* is still held is of interest: no call can ever see another one again.
Revoke ==
  /\ last = NoCall
  /\ \E t \in 1..issued :
       /\ Held(t)
       /\ t \notin revoked
       /\ revoked' = revoked \cup {t}
  /\ UNCHANGED <<variant, cacheVars, clock, ticks, issued, envWebhookUrls, calls, last>>

\* The route handler that awaited getZohoAccessToken resumes with the value
\* or the error; nothing else runs between the return and this.
Deliver ==
  /\ last # NoCall
  /\ last' = NoCall
  /\ UNCHANGED <<variant, cacheVars, envVars, calls>>

\* A request can enter getZohoAccessToken.
CanBegin == last = NoCall /\ BagCardinality(calls) < MaxInFlight

\* ----------------------------------------------- src/server.js, the cache
\* (variant of SrvBegin with single-flight coalescing: a call that finds an
\* exchange already under way waits for it instead of making its own)
SrvBeginCoalesced(k, tok, exp) ==
  /\ calls' = calls (+) One(
       IF CacheLive(tok, exp, clock)
         THEN Call(k, "probe", clock, tok, "none", 0, Stale(tok), Null, "")
         ELSE IF \E r \in InFlight : r.pc = "exchange"
           THEN Call(k, "exchange", clock, Null, "none", 0, Stale(tok), Null, "")
           ELSE Call(k, "exchange", clock, Null, "none", 1, Stale(tok), Null, ""))
  /\ last' = last

\* The synchronous head of getZohoAccessToken, entered with the module
\* variables holding tok/exp: read the clock, then either start the probe of
\* the cached token or go on to the exchange.
SrvBegin(k, tok, exp) ==
  /\ calls' = calls (+) One(
       IF CacheLive(tok, exp, clock)
         THEN Call(k, "probe", clock, tok, "none", 0, Stale(tok), Null, "")
         ELSE Call(k, "exchange", clock, Null, "none", 1, Stale(tok), Null, ""))
  /\ last' = last

SrvAcquire ==
  /\ variant = "server"
  /\ CanBegin
  /\ SrvBegin("acquire", zohoAccessToken, tokenExpiryTime)
  /\ UNCHANGED <<variant, cacheVars, envVars>>

\* (variant of SrvProbeOk where validateZohoToken answers true for any token,
\* as if its catch block returned true)
SrvProbeOkAlways(r) ==
  /\ variant = "server"
  /\ last = NoCall
  /\ r.pc = "probe"
  /\ calls' = calls (-) One(r)
  /\ last' = [r EXCEPT !.pc = "done", !.probeReply = "ok", !.ret = zohoAccessToken]
  /\ UNCHANGED <<variant, cacheVars, envVars>>

\* (variant of SrvProbeOk that goes on to the exchange although the probe passed)
SrvProbeOkRefresh(r) ==
  /\ variant = "server"
  /\ last = NoCall
  /\ r.pc = "probe"
  /\ UpstreamAccepts(r.probed)
  /\ calls' = (calls (-) One(r)) (+)
                One([r EXCEPT !.pc = "exchange", !.probeReply = "ok", !.exch = r.exch + 1])
  /\ UNCHANGED <<variant, cacheVars, envVars, last>>

\* validateZohoToken returned true: return zohoAccessToken (read now).
SrvProbeOk(r) ==
  /\ variant = "server"
  /\ last = NoCall
  /\ r.pc = "probe"
  /\ UpstreamAccepts(r.probed)
  /\ calls' = calls (-) One(r)
  /\ last' = [r EXCEPT !.pc = "done", !.probeReply = "ok", !.ret = zohoAccessToken]
  /\ UNCHANGED <<variant, cacheVars, envVars>>

\* (variant of SrvProbeFail that returns the cached token although the probe failed)
SrvProbeFailKeep(r) ==
  /\ variant = "server"
  /\ last = NoCall
  /\ r.pc = "probe"
  /\ calls' = calls (-) One(r)
  /\ last' = [r EXCEPT !.pc = "done", !.probeReply = "fail", !.ret = zohoAccessToken]
  /\ UNCHANGED <<variant, cacheVars, envVars>>

\* validateZohoToken returned false (non-200, transport error or timeout):
\* clear both module variables and go on to the exchange.
SrvProbeFail(r) ==
  /\ variant = "server"
  /\ last = NoCall
  /\ r.pc = "probe"
  /\ zohoAccessToken' = Null
  /\ tokenExpiryTime' = Null
  /\ cachedAt' = Null
  /\ calls' = (calls (-) One(r)) (+)
                One([r EXCEPT !.pc = "exchange", !.probeReply = "fail", !.exch = r.exch + 1])
  /\ UNCHANGED <<variant, envVars, last>>

\* The exchange answered 2xx with an access_token.
SrvExchangeOk(r) ==
  /\ variant = "server"
  /\ last = NoCall
  /\ r.pc = "exchange"
  /\ issued < MaxTokens
  /\ issued' = issued + 1
  /\ zohoAccessToken' = issued + 1
  /\ tokenExpiryTime' = r.now + TokenLifetimeMs
  /\ cachedAt' = r.now
  /\ calls' = calls (-) One(r)
  /\ last' = [r EXCEPT !.pc = "done", !.ret = issued + 1]
  /\ UNCHANGED <<variant, clock, ticks, revoked, envWebhookUrls>>

\* The catch block of getZohoAccessToken: clear both module variables and
\* throw "Failed to get Zoho access token: " + error.message.
SrvCatch(r, message) ==
  /\ zohoAccessToken' = Null
  /\ tokenExpiryTime' = Null
  /\ cachedAt' = Null
  /\ calls' = calls (-) One(r)
  /\ last' = [r EXCEPT !.pc = "failed", !.err = message]
  /\ UNCHANGED <<variant, envVars>>

\* The exchange answered 2xx without an access_token:
\* throw new Error("No access token in response"), caught by the catch block.
SrvExchangeNoToken(r) ==
  /\ variant = "server"
  /\ last = NoCall
  /\ r.pc = "exchange"
  /\ SrvCatch(r, "No access token in response")

\* The exchange failed: network error, 10 s timeout or non-2xx answer.
SrvExchangeFail(r) ==
  /\ variant = "server"
  /\ last = NoCall
  /\ r.pc = "exchange"
  /\ SrvCatch(r, "Request failed")

\* (variant of SrvForceRefresh that does not clear the module variables)
SrvForceRefreshNoClear ==
  /\ variant = "server"
  /\ CanBegin
  /\ SrvBegin("refresh", zohoAccessToken, tokenExpiryTime)
  /\ UNCHANGED <<variant, cacheVars, envVars>>

\* GET /api/zoho/refresh-token: clear both module variables, then call
\* getZohoAccessToken in the same turn.
SrvForceRefresh ==
  /\ variant = "server"
  /\ CanBegin
  /\ zohoAccessToken' = Null
  /\ tokenExpiryTime' = Null
  /\ cachedAt' = Null
  /\ SrvBegin("refresh", Null, Null)
  /\ UNCHANGED <<variant, envVars>>

\* GET /api/zoho/refresh-token after its await: the handler resumes in the
\* turn in which getZohoAccessToken returned and reads the module variable
\* for tokenExpiry: new Date(tokenExpiryTime).toISOString().
RefreshTokenExpiry == tokenExpiryTime

\* ------------------------------------------------ src/index.js, the cache
\* getZohoAccessToken of src/index.js up to its first await: a live cached
\* token is returned at once, without a probe; otherwise the exchange starts.
IdxAcquire ==
  /\ variant = "index"
  /\ CanBegin
  /\ IF CacheLive(zohoAccessToken, tokenExpiryTime, clock)
       THEN /\ last' = Call("acquire", "done", clock, Null, "none", 0,
                            Stale(zohoAccessToken), zohoAccessToken, "")
            /\ calls' = calls
       ELSE /\ calls' = calls (+) One(Call("acquire", "exchange", clock, Null, "none", 1,
                                           Stale(zohoAccessToken), Null, ""))
            /\ last' = last
  /\ UNCHANGED <<variant, cacheVars, envVars>>

\* zohoAccessToken = response.data.access_token;
\* tokenExpiryTime = now + 55 * 60 * 1000; return zohoAccessToken;
IdxStore(r, tok) ==
  /\ zohoAccessToken' = tok
  /\ tokenExpiryTime' = r.now + TokenLifetimeMs
  /\ cachedAt' = r.now
  /\ calls' = calls (-) One(r)
  /\ last' = [r EXCEPT !.pc = "done", !.ret = tok]

\* The exchange answered 2xx with an access_token.
IdxExchangeOk(r) ==
  /\ variant = "index"
  /\ last = NoCall
  /\ r.pc = "exchange"
  /\ issued < MaxTokens
  /\ issued' = issued + 1
  /\ IdxStore(r, issued + 1)
  /\ UNCHANGED <<variant, clock, ticks, revoked, envWebhookUrls>>

\* The exchange answered 2xx without an access_token: the field reads as
\* undefined and is stored and returned like a token.
IdxExchangeNoToken(r) ==
  /\ variant = "index"
  /\ last = NoCall
  /\ r.pc = "exchange"
  /\ IdxStore(r, Undefined)
  /\ UNCHANGED <<variant, envVars>>

\* The exchange failed (network error or non-2xx answer): axios.post throws,
\* nothing catches it inside getZohoAccessToken, the module variables keep
\* their values.
IdxExchangeFail(r) ==
  /\ variant = "index"
  /\ last = NoCall
  /\ r.pc = "exchange"
  /\ calls' = calls (-) One(r)
  /\ last' = [r EXCEPT !.pc = "failed", !.err = "Request failed"]
  /\ UNCHANGED <<variant, cacheVars, envVars>>

\* The token endpoint accepts the request and never answers. axios.post is
\* called without a timeout option in src/index.js (axios' default is no
\* timeout), so nothing ever resumes the call. (In src/server.js the request
\* carries timeout: 10000 and this case is SrvExchangeFail.)
IdxExchangeHang(r) ==
  /\ variant = "index"
  /\ last = NoCall
  /\ r.pc = "exchange"
  /\ calls' = (calls (-) One(r)) (+) One([r EXCEPT !.pc = "hung"])
  /\ UNCHANGED <<variant, cacheVars, envVars, last>>

\* The token endpoint answers, or the connection fails: the call resumes.
IdxSettle(r) == IdxExchangeOk(r) \/ IdxExchangeNoToken(r) \/ IdxExchangeFail(r)

\* ------------------------------------------------------ the webhook fan-out
VARIABLES
  route,             \* the write route that runs: vendors (src/server.js) or claims (src/unnamed/part_000)
  supplierName,      \* data.supplierName of the submission ("" when missing)
  webhookUrls,       \* the target list of this request
  fpc,               \* position of the handler: start, await, responded
  sent,              \* per target: axios.post has been called
  attempts,          \* per target: how many times axios.post has been called
  arrival,           \* the targets in the order their requests settled
  reply,             \* per target: what the target did (pending until it is known)
  successCount,      \* webhookResults.successCount / successCount
  failureCount,      \* webhookResults.failureCount / failureCount
  details,           \* webhookResults.details (vendors route only)
  httpStatus         \* status of the route's answer, 0 before it is sent

fanVars == <<route, supplierName, webhookUrls, fpc, sent, attempts, arrival, reply,
             successCount, failureCount, details, httpStatus>>
\* The CRM-calling routes of src/server.js
VARIABLES
  croute,            \* the CRM-calling route that runs
  cquery,            \* its query parameter: too short / missing, or usable
  cpc,               \* position of the handler: start, auth, crm, responded
  acquireErr,        \* getZohoAccessToken() threw in this request
  crmReply,          \* what the CRM did with the request (pending until known)
  canswer            \* the route's answer

crmVars == <<croute, cquery, cpc, acquireErr, crmReply, canswer>>
routeVars == <<fanVars, crmVars>>
vars == <<tokenVars, fanVars, crmVars>>

Urls == {"https://hook.a", "https://hook.b"}
Routes == {"vendors", "claims"}
\* data.supplierName: missing (or empty), or given
Names == {"", "Acme Traders"}
\* JS truthiness of a string
NonEmpty(str) == str # ""
\* Every call site of the fan-out: the two above, the upload route at the head
\* of src/server.js and the vendors route of src/index.js.
AllRoutes == Routes \cup {"upload", "idxVendors"}
\* The status a call site answers with when its target list is empty: the
\* vendors route of src/server.js skips the fan-out and the upload route maps
\* over nothing, both answer 200; the claims routes and the vendors route of
\* src/index.js return 500 "No webhook URLs configured".
EmptyListStatus(rt) == IF rt \in {"vendors", "upload"} THEN 200 ELSE 500
\* The call sites that pass validateStatus to axios.post
Validating == {"vendors", "claims", "idxVendors"}

Pending == [kind |-> "pending", status |-> 0]
\* What one target can do with the request: answer with an HTTP status, not
\* answer within the timeout, or fail at the transport level.
Replies ==
  {[kind |-> "http", status |-> st] : st \in {200, 304, 400, 404, 500}}
    \cup {[kind |-> "timeout", status |-> 0], [kind |-> "network", status |-> 0]}

\* validateStatus: (status) => status >= 200 && status < 500
validateStatus(status) == status >= 200 /\ status < 500

\* axios' own validateStatus, used when the call passes none
defaultValidateStatus(status) == status >= 200 /\ status < 300

\* The axios promise of one target: fulfilled when the target answered with a
\* status validateStatus accepts, rejected otherwise.
Fulfilled(r) == r.kind = "http" /\ validateStatus(r.status)

\* error.message of the rejection of one target's axios promise
ReasonMessage(r) ==
  IF r.kind = "timeout" THEN "timeout of 15000ms exceeded"
  ELSE IF r.kind = "network" THEN "Network Error"
  ELSE "Request failed with status code"

\* result.status === "fulfilled" && result.value.status < 400
IsSuccess(r) == Fulfilled(r) /\ r.status < 400

\* The entry pushed to webhookResults.details for target i
\* (result.reason?.message || "Unknown error" for a failure).
DetailEntry(i) ==
  IF IsSuccess(reply[i])
    THEN [url |-> webhookUrls[i], status |-> "success",
          statusCode |-> reply[i].status, error |-> ""]
    ELSE [url |-> webhookUrls[i], status |-> "failed", statusCode |-> 0,
          error |-> IF Fulfilled(reply[i]) THEN "Unknown error"
                    ELSE ReasonMessage(reply[i])]

SeqsUpTo(S, n) == UNION {[1..k -> S] : k \in 0..n}

InitTargets ==
  /\ supplierName = "Acme Traders"
  /\ webhookUrls \in SeqsUpTo(Urls, MaxTargets)
  /\ fpc = "start"
  /\ sent = [i \in 1..Len(webhookUrls) |-> FALSE]
  /\ attempts = [i \in 1..Len(webhookUrls) |-> 0]
  /\ arrival = <<>>
  /\ reply = [i \in 1..Len(webhookUrls) |-> Pending]
  /\ successCount = 0
  /\ failureCount = 0
  /\ details = <<>>
  /\ httpStatus = 0

InitFan ==
  /\ route \in Routes
  /\ InitTargets

NoFan ==
  /\ route = "none"
  /\ supplierName = ""
  /\ webhookUrls = <<>>
  /\ fpc = "idle"
  /\ sent = <<>>
  /\ attempts = <<>>
  /\ arrival = <<>>
  /\ reply = <<>>
  /\ successCount = 0
  /\ failureCount = 0
  /\ details = <<>>
  /\ httpStatus = 0

\* (variant of SendAll that dispatches serially: only the first request is
\* issued before the handler waits)
SendFirst ==
  /\ sent' = [i \in 1..Len(webhookUrls) |-> i = 1]
  /\ attempts' = [i \in 1..Len(webhookUrls) |-> IF i = 1 THEN 1 ELSE 0]
  /\ fpc' = "await"
  /\ UNCHANGED <<route, supplierName, webhookUrls, arrival, reply, successCount,
                 failureCount, details, httpStatus>>

\* const requests = webhookUrls.map(url => axios.post(...)): every request
\* is issued in this one turn; then await Promise.allSettled(requests).
SendAll ==
  /\ sent' = [i \in 1..Len(webhookUrls) |-> TRUE]
  /\ attempts' = [i \in 1..Len(webhookUrls) |-> attempts[i] + 1]
  /\ fpc' = "await"
  /\ UNCHANGED <<route, supplierName, webhookUrls, arrival, reply, successCount,
                 failureCount, details, httpStatus>>

\* POST /api/vendors, step 5: an empty list skips the fan-out and the route
\* goes on to answer 200 with the zero report.
VendorsDispatch ==
  /\ route = "vendors"
  /\ fpc = "start"
  /\ IF Len(webhookUrls) > 0
       THEN SendAll
       ELSE /\ fpc' = "responded"
            /\ httpStatus' = 200
            /\ UNCHANGED <<route, supplierName, webhookUrls, sent, attempts, arrival, reply,
                           successCount, failureCount, details>>
  /\ UNCHANGED <<tokenVars, crmVars>>

\* POST /api/claims: an empty list is answered 500 "No webhook URLs
\* configured"; otherwise every request is issued.
ClaimsDispatch ==
  /\ route = "claims"
  /\ fpc = "start"
  /\ IF Len(webhookUrls) = 0
       THEN /\ fpc' = "responded"
            /\ httpStatus' = 500
            /\ UNCHANGED <<route, supplierName, webhookUrls, sent, attempts, arrival, reply,
                           successCount, failureCount, details>>
       ELSE SendAll
  /\ UNCHANGED <<tokenVars, crmVars>>

\* (variant of Settle with one retry: a request that failed for the first
\* time is sent again instead of settling)
SettleRetry(i) ==
  /\ fpc = "await"
  /\ i \in 1..Len(webhookUrls)
  /\ sent[i]
  /\ reply[i] = Pending
  /\ \E r \in Replies :
       IF ~IsSuccess(r) /\ attempts[i] < 2
         THEN /\ attempts' = [attempts EXCEPT ![i] = attempts[i] + 1]
              /\ UNCHANGED <<reply, arrival>>
         ELSE /\ reply' = [reply EXCEPT ![i] = r]
              /\ arrival' = Append(arrival, i)
              /\ UNCHANGED attempts
  /\ UNCHANGED <<route, supplierName, webhookUrls, fpc, sent, successCount, failureCount,
                 details, httpStatus>>
  /\ UNCHANGED <<tokenVars, crmVars>>

\* Target i answers, times out or fails; its axios promise settles.
Settle(i) ==
  /\ fpc = "await"
  /\ i \in 1..Len(webhookUrls)
  /\ sent[i]
  /\ reply[i] = Pending
  /\ \E r \in Replies : reply' = [reply EXCEPT ![i] = r]
  /\ arrival' = Append(arrival, i)
  /\ UNCHANGED <<route, supplierName, webhookUrls, fpc, sent, attempts, successCount,
                 failureCount, details, httpStatus>>
  /\ UNCHANGED <<tokenVars, crmVars>>

\* (variant of AllSettled with the meaning of Promise.race / Promise.any: the
\* await ends as soon as one request has settled)
AnySettled == \E i \in 1..Len(webhookUrls) : reply[i] # Pending

\* await Promise.allSettled(requests) resumes once every request has settled.
AllSettled == \A i \in 1..Len(webhookUrls) : reply[i] # Pending

\* (variant of Collect built on Promise.all: one rejected request rejects the
\* whole await, the route's catch block answers 500 and nothing is counted)
CollectAll ==
  /\ route \in Validating
  /\ fpc = "await"
  /\ AllSettled
  /\ IF \E i \in 1..Len(webhookUrls) : ~Fulfilled(reply[i])
       THEN /\ httpStatus' = 500
            /\ UNCHANGED <<successCount, failureCount, details>>
       ELSE /\ successCount' = Cardinality({i \in 1..Len(webhookUrls) : IsSuccess(reply[i])})
            /\ failureCount' = Cardinality({i \in 1..Len(webhookUrls) : ~IsSuccess(reply[i])})
            /\ details' = IF route = "vendors"
                            THEN [i \in 1..Len(webhookUrls) |-> DetailEntry(i)]
                            ELSE <<>>
            /\ httpStatus' = 200
  /\ fpc' = "responded"
  /\ UNCHANGED <<route, supplierName, webhookUrls, sent, attempts, arrival, reply>>
  /\ UNCHANGED <<tokenVars, crmVars>>

\* (variant of Collect that folds over the distinct URLs of the list, so that
\* a URL listed twice is counted once)
CollectDistinct ==
  /\ route \in Validating
  /\ fpc = "await"
  /\ AllSettled
  /\ successCount' = Cardinality({webhookUrls[i] : i \in
                         {j \in 1..Len(webhookUrls) : IsSuccess(reply[j])}})
  /\ failureCount' = Cardinality({webhookUrls[i] : i \in
                         {j \in 1..Len(webhookUrls) : ~IsSuccess(reply[j])}})
  /\ details' = IF route = "vendors"
                  THEN [i \in 1..Len(webhookUrls) |-> DetailEntry(i)]
                  ELSE <<>>
  /\ httpStatus' = 200
  /\ fpc' = "responded"
  /\ UNCHANGED <<route, supplierName, webhookUrls, sent, attempts, arrival, reply>>
  /\ UNCHANGED <<tokenVars, crmVars>>

\* (variant of Collect that pushes each entry when its request settles, so
\* that the detail list is in the order of arrival)
CollectArrival ==
  /\ route \in Validating
  /\ fpc = "await"
  /\ AllSettled
  /\ successCount' = Cardinality({i \in 1..Len(webhookUrls) : IsSuccess(reply[i])})
  /\ failureCount' = Cardinality({i \in 1..Len(webhookUrls) : ~IsSuccess(reply[i])})
  /\ details' = IF route = "vendors"
                  THEN [k \in 1..Len(arrival) |-> DetailEntry(arrival[k])]
                  ELSE <<>>
  /\ httpStatus' = 200
  /\ fpc' = "responded"
  /\ UNCHANGED <<route, supplierName, webhookUrls, sent, attempts, arrival, reply>>
  /\ UNCHANGED <<tokenVars, crmVars>>

\* Promise.allSettled resolved: results.forEach folds the outcomes, in the
\* order of the target list, into the report; the route answers 200.
Collect ==
  /\ route \in Validating
  /\ fpc = "await"
  /\ AllSettled
  /\ successCount' = Cardinality({i \in 1..Len(webhookUrls) : IsSuccess(reply[i])})
  /\ failureCount' = Cardinality({i \in 1..Len(webhookUrls) : ~IsSuccess(reply[i])})
  /\ details' = IF route = "vendors"
                  THEN [i \in 1..Len(webhookUrls) |-> DetailEntry(i)]
                  ELSE <<>>
  /\ httpStatus' = 200
  /\ fpc' = "responded"
  /\ UNCHANGED <<route, supplierName, webhookUrls, sent, attempts, arrival, reply>>
  /\ UNCHANGED <<tokenVars, crmVars>>

\* POST /api/vendors of src/index.js: an empty list is answered 500 "No
\* vendor webhook URLs configured"; otherwise every request is issued.
IdxVendorsDispatch ==
  /\ route = "idxVendors"
  /\ fpc = "start"
  /\ IF Len(webhookUrls) = 0
       THEN /\ fpc' = "responded"
            /\ httpStatus' = 500
            /\ UNCHANGED <<route, supplierName, webhookUrls, sent, attempts, arrival, reply,
                           successCount, failureCount, details>>
       ELSE SendAll
  /\ UNCHANGED <<tokenVars, crmVars>>

\* POST /api/claims at the head of src/server.js: no check of the list's
\* length; webhookUrls.map issues every request (none for an empty list) and
\* the handler awaits Promise.allSettled(requests).
UploadDispatch ==
  /\ route = "upload"
  /\ fpc = "start"
  /\ SendAll
  /\ UNCHANGED <<tokenVars, crmVars>>

\* The same route after the await: results.filter(r => r.status ===
\* "fulfilled").length is reported as webhookSuccess; the answer has no
\* failure count and no detail list. No validateStatus was passed, so a
\* request is fulfilled only by a 2xx status.
UploadCollect ==
  /\ route = "upload"
  /\ fpc = "await"
  /\ AllSettled
  /\ successCount' = Cardinality({i \in 1..Len(webhookUrls) :
                         /\ reply[i].kind = "http"
                         /\ defaultValidateStatus(reply[i].status)})
  /\ httpStatus' = 200
  /\ fpc' = "responded"
  /\ UNCHANGED <<route, supplierName, webhookUrls, sent, attempts, arrival, reply,
                 failureCount, details>>
  /\ UNCHANGED <<tokenVars, crmVars>>

\* What the caller of a route can see of the fan-out in the route's answer:
\* the status and the report fields of the JSON body.
Answer == <<httpStatus, successCount, failureCount, details>>

\* The answer of a call site whose target list is empty: its status, and a
\* report in which nothing was counted.
EmptyAnswer(rt) == <<EmptyListStatus(rt), 0, 0, <<>>>>

\* ----------------------------------------------------------- the CRM routes
\* POST /api/vendors, GET /vendors/search, /api/contacts/search,
\* /api/vendors/search, /api/products/search, /api/finance/contacts/search,
\* /api/trail/search and POST /api/trail/check-duplicate of src/server.js.
CrmRoutes == {"vendorsPost", "vendorsList", "contactsSearch", "vendorsSearch",
              "productsSearch", "financeContactsSearch", "trailSearch",
              "checkDuplicate"}

CrmPending == [kind |-> "pending", status |-> 0, records |-> 0]
\* What the CRM can do with a request: answer 200 with some records, answer
\* 204 without a body, answer with an error status, or not be reachable.
CrmReplies ==
  {[kind |-> "http", status |-> 200, records |-> n] : n \in 0..MaxRecords}
    \cup {[kind |-> "http", status |-> st, records |-> 0] : st \in {204, 400, 401, 500}}
    \cup {[kind |-> "network", status |-> 0, records |-> 0]}

\* The axios promise of the CRM request: no validateStatus is passed, so it is
\* fulfilled by a 2xx status (204 included) and rejected otherwise.
CrmFulfilled(r) == r.kind = "http" /\ defaultValidateStatus(r.status)

\* response.data.data, as the number of records: the body of a 204 is the
\* empty string, whose .data is undefined.
Data(r) == IF r.status = 204 THEN Undefined ELSE r.records

NoAnswer == [status |-> 0, success |-> FALSE, results |-> 0, error |-> ""]
\* res.json({success: true, <list>: [n records]})
Ok(n) == [status |-> 200, success |-> TRUE, results |-> n, error |-> ""]
\* res.status(st).json({success: false, ..., error: e})
Failure(st, e) == [status |-> st, success |-> FALSE, results |-> 0, error |-> e]

\* The errors a catch block can receive: the one getZohoAccessToken throws,
\* the rejection of the CRM request, a TypeError of the handler's own code.
TokenError == [kind |-> "token", status |-> 0]
TypeError == [kind |-> "type", status |-> 0]
ErrorOf(r) == [kind |-> r.kind, status |-> r.status]

\* error.message
ErrorMessage(e) ==
  IF e.kind = "token" THEN "Failed to get Zoho access token"
  ELSE IF e.kind = "network" THEN "Network Error"
  ELSE IF e.kind = "type" THEN "Cannot read properties of undefined"
  ELSE "Request failed with status code"

\* error.response?.data || error.message
ErrorDetail(e) == IF e.kind = "http" THEN "response data" ELSE ErrorMessage(e)

\* The answer of a route's catch block for error e. POST /api/vendors has a
\* catch of its own around getZohoAccessToken (401 AUTH_FAILED) and another
\* around the vendor operation; every other route has one catch for both.
CatchAnswer(rt, e) ==
  IF rt = "vendorsPost"
    THEN IF e.kind = "token" THEN Failure(401, "AUTH_FAILED")
         ELSE Failure(500, ErrorDetail(e))
  ELSE IF rt = "vendorsList" THEN Ok(0)
  ELSE IF rt = "productsSearch"
    THEN [status |-> 200, success |-> FALSE, results |-> 0, error |-> ""]
  ELSE IF rt = "vendorsSearch" THEN Failure(500, ErrorMessage(e))
  ELSE IF rt = "checkDuplicate" THEN Failure(500, ErrorDetail(e))
  ELSE IF e.kind = "http" /\ e.status = 204 THEN Ok(0)
  ELSE Failure(500, "")

\* (variant of TryAnswer that reads response.data.data.length unguarded: for
\* a 204 that is a TypeError, which lands in the route's catch block)
TryAnswerUnguarded(rt, r) ==
  IF rt = "vendorsPost" THEN Ok(0)
  ELSE IF Data(r) = Undefined THEN CatchAnswer(rt, TypeError)
  ELSE Ok(Data(r))

\* The answer of a route whose CRM request was fulfilled: every route reads
\* response.data.data behind a guard (data && data.length > 0, data || []).
\* POST /api/vendors goes on to its fan-out and answers 200.
TryAnswer(rt, r) ==
  IF rt = "vendorsPost" THEN Ok(0)
  ELSE IF Data(r) # Undefined /\ Data(r) > 0 THEN Ok(Data(r))
  ELSE Ok(0)

\* The answer to a query that is too short or missing
ShortAnswer(rt) == IF rt = "vendorsSearch" THEN Failure(400, "") ELSE Ok(0)

NoCrm ==
  /\ croute = "none"
  /\ cquery = "none"
  /\ cpc = "idle"
  /\ acquireErr = FALSE
  /\ crmReply = CrmPending
  /\ canswer = NoAnswer

\* The handler up to its first await: the check of the query, then the call
\* of getZohoAccessToken. POST /api/vendors has no such check.
CrmStart ==
  /\ cpc = "start"
  /\ IF cquery = "short" /\ croute # "vendorsPost"
       THEN cpc' = "responded" /\ canswer' = ShortAnswer(croute)
       ELSE cpc' = "auth" /\ UNCHANGED canswer
  /\ UNCHANGED <<croute, cquery, acquireErr, crmReply>>
  /\ UNCHANGED <<tokenVars, fanVars>>

\* getZohoAccessToken returned a token: the CRM request is issued.
CrmAcquireOk ==
  /\ cpc = "auth"
  /\ cpc' = "crm"
  /\ UNCHANGED <<croute, cquery, acquireErr, crmReply, canswer>>
  /\ UNCHANGED <<tokenVars, fanVars>>

\* getZohoAccessToken threw: the route's catch block answers.
CrmAcquireThrows ==
  /\ cpc = "auth"
  /\ acquireErr' = TRUE
  /\ canswer' = CatchAnswer(croute, TokenError)
  /\ cpc' = "responded"
  /\ UNCHANGED <<croute, cquery, crmReply>>
  /\ UNCHANGED <<tokenVars, fanVars>>

\* The CRM request settles and the handler runs to its answer.
CrmSettle ==
  /\ cpc = "crm"
  /\ \E r \in CrmReplies :
       /\ crmReply' = r
       /\ canswer' = IF CrmFulfilled(r) THEN TryAnswer(croute, r)
                     ELSE CatchAnswer(croute, ErrorOf(r))
  /\ cpc' = "responded"
  /\ UNCHANGED <<croute, cquery, acquireErr>>
  /\ UNCHANGED <<tokenVars, fanVars>>

\* ------------------------------------- POST /api/vendors, CRM stage first
\* (variant of VendorsCrmSettle that only logs a failed vendor operation and
\* goes on, as the route does for a failed purchase request)
VendorsCrmSettleSwallow ==
  /\ croute = "vendorsPost"
  /\ cpc = "crm"
  /\ fpc = "idle"
  /\ \E r \in CrmReplies : crmReply' = r
  /\ cpc' = "fanout"
  /\ fpc' = "start"
  /\ UNCHANGED <<croute, cquery, acquireErr, canswer>>
  /\ UNCHANGED <<route, supplierName, webhookUrls, sent, attempts, arrival, reply,
                 successCount, failureCount, details, httpStatus>>
  /\ UNCHANGED tokenVars

\* The vendor create/update request (axios.put / axios.post to /Vendors)
\* settles. Rejected: the catch block around it returns 500 "Failed to
\* process vendor". Fulfilled: the handler goes on to step 5, the fan-out.
\* (The search before it and the purchase request after it swallow their
\* errors and do not change what the route does next.)
VendorsCrmSettle ==
  /\ croute = "vendorsPost"
  /\ cpc = "crm"
  /\ fpc = "idle"
  /\ \E r \in CrmReplies :
       /\ crmReply' = r
       /\ IF CrmFulfilled(r)
            THEN cpc' = "fanout" /\ fpc' = "start" /\ UNCHANGED canswer
            ELSE /\ cpc' = "responded"
                 /\ canswer' = CatchAnswer(croute, ErrorOf(r))
                 /\ UNCHANGED fpc
  /\ UNCHANGED <<croute, cquery, acquireErr>>
  /\ UNCHANGED <<route, supplierName, webhookUrls, sent, attempts, arrival, reply,
                 successCount, failureCount, details, httpStatus>>
  /\ UNCHANGED tokenVars

\* ------------------------------------------ POST /api/claims, validation
\* (variant of ClaimsValidate without the check: every submission goes on)
ClaimsValidateNone ==
  /\ route \in {"claims", "upload"}
  /\ fpc = "validate"
  /\ fpc' = "start"
  /\ UNCHANGED <<route, supplierName, webhookUrls, sent, attempts, arrival,
                 reply, successCount, failureCount, details, httpStatus>>
  /\ UNCHANGED <<tokenVars, crmVars>>

\* The head of POST /api/claims in every build: if (!data.supplierName)
\* return res.status(400)...; otherwise the handler goes on to resolve the
\* target list.
ClaimsValidate ==
  /\ route \in {"claims", "upload"}
  /\ fpc = "validate"
  /\ IF ~NonEmpty(supplierName)
       THEN fpc' = "rejected" /\ httpStatus' = 400
       ELSE fpc' = "start" /\ UNCHANGED httpStatus
  /\ UNCHANGED <<route, supplierName, webhookUrls, sent, attempts, arrival,
                 reply, successCount, failureCount, details>>
  /\ UNCHANGED <<tokenVars, crmVars>>

\* ------------------------------------------------- the configured target list
\* process.env.WEBHOOK_URLS / process.env.VENDOR_WEBHOOK_URLS: not set, or a
\* string, here a sequence of characters.
Chars == {"h", " ", ","}
NotSet == [set |-> FALSE, text |-> <<>>]
EnvValues ==
  {NotSet} \cup {[set |-> TRUE, text |-> t] : t \in SeqsUpTo(Chars, MaxEnvLen)}

\* String.prototype.split(","): the pieces between the commas, empty pieces
\* included; a string without a comma is its only piece.
RECURSIVE split(_)
split(str) ==
  IF \A i \in 1..Len(str) : str[i] # ","
    THEN <<str>>
    ELSE LET k == CHOOSE i \in 1..Len(str) :
                    str[i] = "," /\ \A j \in 1..(i - 1) : str[j] # ","
         IN  <<SubSeq(str, 1, k - 1)>> \o split(SubSeq(str, k + 1, Len(str)))

RECURSIVE trimStart(_)
trimStart(str) ==
  IF str # <<>> /\ Head(str) = " " THEN trimStart(Tail(str)) ELSE str

RECURSIVE trimEnd(_)
trimEnd(str) ==
  IF str # <<>> /\ str[Len(str)] = " "
    THEN trimEnd(SubSeq(str, 1, Len(str) - 1))
    ELSE str

\* String.prototype.trim()
trim(str) == trimEnd(trimStart(str))

\* process.env.X ? process.env.X.split(",").map((u) => u.trim()) : []
ResolveUrls(env) ==
  IF env.set /\ env.text # <<>>
    THEN LET pieces == split(env.text)
         IN  [i \in 1..Len(pieces) |-> trim(pieces[i])]
    ELSE <<>>

\* The routes of the other sections take their target list as given.
EnvNotRead == envWebhookUrls = NotSet

\* const webhookUrls = ...: the handler reads the configuration, once per
\* request, before it dispatches.
ResolveTargets ==
  /\ route \in Routes
  /\ fpc = "resolve"
  /\ webhookUrls' = ResolveUrls(envWebhookUrls)
  /\ sent' = [i \in 1..Len(webhookUrls') |-> FALSE]
  /\ attempts' = [i \in 1..Len(webhookUrls') |-> 0]
  /\ reply' = [i \in 1..Len(webhookUrls') |-> Pending]
  /\ fpc' = "start"
  /\ UNCHANGED <<route, supplierName, arrival, successCount, failureCount,
                 details, httpStatus>>
  /\ UNCHANGED <<tokenVars, crmVars>>

\* ---------------------------------------------------------- specifications
CacheEnv == (Tick \/ Revoke \/ Deliver) /\ UNCHANGED routeVars

NextServer ==
  \/ SrvAcquire /\ UNCHANGED routeVars
  \/ SrvForceRefresh /\ UNCHANGED routeVars
  \/ \E r \in InFlight : SrvProbeOk(r) /\ UNCHANGED routeVars
  \/ \E r \in InFlight : SrvProbeFail(r) /\ UNCHANGED routeVars
  \/ \E r \in InFlight : SrvExchangeOk(r) /\ UNCHANGED routeVars
  \/ \E r \in InFlight : SrvExchangeNoToken(r) /\ UNCHANGED routeVars
  \/ \E r \in InFlight : SrvExchangeFail(r) /\ UNCHANGED routeVars
  \/ CacheEnv

NextIndex ==
  \/ IdxAcquire /\ UNCHANGED routeVars
  \/ \E r \in InFlight : IdxExchangeOk(r) /\ UNCHANGED routeVars
  \/ \E r \in InFlight : IdxExchangeNoToken(r) /\ UNCHANGED routeVars
  \/ \E r \in InFlight : IdxExchangeFail(r) /\ UNCHANGED routeVars
  \/ CacheEnv

\* src/index.js with a token endpoint that may never answer
NextIndexHang ==
  \/ NextIndex
  \/ \E r \in InFlight : IdxExchangeHang(r) /\ UNCHANGED routeVars

NextFan ==
  \/ VendorsDispatch
  \/ ClaimsDispatch
  \/ \E i \in 1..MaxTargets : Settle(i)
  \/ Collect

NextSites ==
  \/ NextFan
  \/ IdxVendorsDispatch
  \/ UploadDispatch
  \/ UploadCollect

NextCrm ==
  \/ CrmStart
  \/ CrmAcquireOk
  \/ CrmAcquireThrows
  \/ CrmSettle

\* POST /api/vendors of src/server.js from its first line to its answer
NextVendors ==
  \/ CrmStart
  \/ CrmAcquireOk
  \/ CrmAcquireThrows
  \/ VendorsCrmSettle
  \/ VendorsDispatch
  \/ \E i \in 1..MaxTargets : Settle(i)
  \/ Collect

\* POST /api/claims from its first line to its answer
NextClaims ==
  \/ ClaimsValidate
  \/ ClaimsDispatch
  \/ UploadDispatch
  \/ \E i \in 1..MaxTargets : Settle(i)
  \/ Collect
  \/ UploadCollect

\* The head of the fan-out: the list is read, then dispatched (or found empty)
NextConfig ==
  \/ ResolveTargets
  \/ VendorsDispatch
  \/ ClaimsDispatch

InitServer ==
  /\ variant = "server"
  /\ InitToken
  /\ EnvNotRead
  /\ NoFan
  /\ NoCrm

InitIndex ==
  /\ variant = "index"
  /\ InitToken
  /\ EnvNotRead
  /\ NoFan
  /\ NoCrm

InitRoutes ==
  /\ variant = "none"
  /\ InitToken
  /\ EnvNotRead
  /\ InitFan
  /\ NoCrm

InitSites ==
  /\ variant = "none"
  /\ InitToken
  /\ EnvNotRead
  /\ route \in AllRoutes
  /\ InitTargets
  /\ NoCrm

\* src/server.js: the cache with the probe and the force-refresh route
SpecServer == InitServer /\ [][NextServer]_vars

\* src/index.js: the cache without a probe
SpecIndex == InitIndex /\ [][NextIndex]_vars

\* src/index.js under the event loop's scheduling: an answer that arrives is
\* processed, and a returned value is handed to the awaiting route.
LiveIndex ==
  /\ InitIndex
  /\ [][NextIndexHang]_vars
  /\ WF_vars(Deliver /\ UNCHANGED routeVars)
  /\ SF_vars((\E r \in InFlight : IdxSettle(r)) /\ UNCHANGED routeVars)

\* the write routes' fan-out
SpecFan == InitRoutes /\ [][NextFan]_vars

InitCrm ==
  /\ variant = "server"
  /\ InitToken
  /\ EnvNotRead
  /\ NoFan
  /\ croute \in CrmRoutes
  /\ cquery \in {"short", "ok"}
  /\ cpc = "start"
  /\ acquireErr = FALSE
  /\ crmReply = CrmPending
  /\ canswer = NoAnswer

\* the CRM-calling routes of src/server.js
SpecCrm == InitCrm /\ [][NextCrm]_vars

InitVendors ==
  /\ variant = "server"
  /\ InitToken
  /\ EnvNotRead
  /\ route = "vendors"
  /\ supplierName = ""
  /\ webhookUrls \in SeqsUpTo(Urls, MaxTargets)
  /\ fpc = "idle"
  /\ sent = [i \in 1..Len(webhookUrls) |-> FALSE]
  /\ attempts = [i \in 1..Len(webhookUrls) |-> 0]
  /\ arrival = <<>>
  /\ reply = [i \in 1..Len(webhookUrls) |-> Pending]
  /\ successCount = 0
  /\ failureCount = 0
  /\ details = <<>>
  /\ httpStatus = 0
  /\ croute = "vendorsPost"
  /\ cquery \in {"short", "ok"}
  /\ cpc = "start"
  /\ acquireErr = FALSE
  /\ crmReply = CrmPending
  /\ canswer = NoAnswer

\* POST /api/vendors: token, vendor operation, then the fan-out
SpecVendors == InitVendors /\ [][NextVendors]_vars

InitClaims ==
  /\ variant = "none"
  /\ InitToken
  /\ EnvNotRead
  /\ NoCrm
  /\ route \in {"claims", "upload"}
  /\ supplierName \in Names
  /\ webhookUrls \in SeqsUpTo(Urls, MaxTargets)
  /\ fpc = "validate"
  /\ sent = [i \in 1..Len(webhookUrls) |-> FALSE]
  /\ attempts = [i \in 1..Len(webhookUrls) |-> 0]
  /\ arrival = <<>>
  /\ reply = [i \in 1..Len(webhookUrls) |-> Pending]
  /\ successCount = 0
  /\ failureCount = 0
  /\ details = <<>>
  /\ httpStatus = 0

\* POST /api/claims: validation, then the fan-out
SpecClaims == InitClaims /\ [][NextClaims]_vars

InitConfig ==
  /\ variant = "none"
  /\ InitToken
  /\ envWebhookUrls \in EnvValues
  /\ NoCrm
  /\ route \in Routes
  /\ supplierName = "Acme Traders"
  /\ webhookUrls = <<>>
  /\ fpc = "resolve"
  /\ sent = <<>>
  /\ attempts = <<>>
  /\ arrival = <<>>
  /\ reply = <<>>
  /\ successCount = 0
  /\ failureCount = 0
  /\ details = <<>>
  /\ httpStatus = 0

\* the configured list, from the environment to the dispatch
SpecConfig == InitConfig /\ [][NextConfig]_vars

\* every call site of the fan-out
SpecSites == InitSites /\ [][NextSites]_vars

\* either build of the cache
Init ==
  /\ variant \in {"server", "index"}
  /\ InitToken
  /\ EnvNotRead
  /\ NoFan
  /\ NoCrm
Next == NextServer \/ NextIndex
Spec == Init /\ [][Next]_vars


\* ================================================================== claims
FiftyFiveMinutes == 55 * 60 * 1000

\* The activations after a step: those still suspended and the one that ended.
After == BagToSet(calls') \cup {last'}

\* This step is the begin of activation q (q is suspended at its first await,
\* or has already returned).
Began(q) ==
  /\ last = NoCall
  /\ q # NoCall
  /\ \/ calls' = calls (+) One(q) /\ last' = NoCall
     \/ calls' = calls /\ last' = q

\* This step resumes the suspended activation r and leaves it as q.
Becomes(r, q) ==
  /\ last = NoCall
  /\ r \in InFlight
  /\ r # q
  /\ \/ calls' = (calls (-) One(r)) (+) One(q) /\ last' = NoCall
     \/ calls' = calls (-) One(r) /\ last' = q /\ q # NoCall

\* C1: every acquire() that completes without failing returns a token that a
\* successful exchange produced, never null or undefined, under any
\* interleaving of acquire() calls and force-refresh requests.
C1_ReturnsExchangedToken ==
  last.pc = "done" => last.ret \in 1..issued

\* C2: in every reachable state the cached token and the cached expiry are
\* both set or both unset.
C2_PairNeverTorn ==
  Truthy(zohoAccessToken) <=> Truthy(tokenExpiryTime)

\* C3: a credential cached by a call that read the clock at T expires at
\* exactly T + 55 minutes: a call that begins before that takes the cached
\* path and makes no exchange (unless its probe fails), a call that begins at
\* or after it starts an exchange; the remembered expiry is always T + 55 min.
C3_ExpiryMath ==
  [][ /\ Truthy(tokenExpiryTime') => tokenExpiryTime' = cachedAt' + FiftyFiveMinutes
      /\ \A q \in After :
           (Began(q) /\ q.kind = "acquire") =>
             /\ q.now = clock
             /\ IF Truthy(zohoAccessToken) /\ clock < cachedAt + FiftyFiveMinutes
                  THEN /\ q.exch = 0
                       /\ q.pc \in {"probe", "done"}
                       /\ q.pc = "done" => q.ret = zohoAccessToken
                       /\ UNCHANGED <<zohoAccessToken, tokenExpiryTime>>
                  ELSE /\ q.exch = 1
                       /\ q.pc = "exchange"
      /\ last'.probeReply = "ok" => last'.exch = 0
    ]_vars

\* C3 witness: with a credential cached at T, one call that began at
\* T + 55 min - 1 ms is on the cached path and another that began at
\* T + 55 min is exchanging.
C3_Witness ==
  \E c, d \in InFlight :
    /\ Truthy(zohoAccessToken)
    /\ c.pc = "probe" /\ c.exch = 0 /\ c.now = cachedAt + FiftyFiveMinutes - 1
    /\ d.pc = "exchange" /\ d.exch = 1 /\ d.now = cachedAt + FiftyFiveMinutes

\* C4: when the probe of a live cached credential fails, the same call clears
\* token and expiry, makes exactly one exchange and returns the newly
\* exchanged credential or fails; it never returns the credential it probed.
C4_ProbeFailureForcesOneExchange ==
  [][ \A r \in InFlight : \A q \in After :
        Becomes(r, q) =>
          /\ (r.pc = "probe" /\ ~UpstreamAccepts(r.probed)) => q.probeReply = "fail"
          /\ (r.pc = "probe" /\ q.probeReply = "fail") =>
               /\ zohoAccessToken' = Null
               /\ tokenExpiryTime' = Null
               /\ q.pc = "exchange"
               /\ q.exch = 1
          /\ (r.pc = "exchange" /\ r.probeReply = "fail") =>
               /\ q.exch = 1
               /\ q.pc \in {"done", "failed"}
               /\ q.pc = "done" =>
                    /\ issued' = issued + 1
                    /\ q.ret = issued'
                    /\ q.ret # r.probed
                    /\ zohoAccessToken' = q.ret
    ]_vars

\* C4 witness: a call whose probe failed has returned a new token after one
\* exchange.
C4_Witness ==
  /\ last.pc = "done" /\ last.probeReply = "fail" /\ last.exch = 1
  /\ Truthy(last.probed) /\ last.ret \in 1..issued /\ last.ret # last.probed

C6_ExchangeFailureEmptiesCache ==
  [][ \A r \in InFlight : \A q \in After :
        (Becomes(r, q) /\ r.pc = "exchange" /\ q.pc = "failed") =>
          /\ zohoAccessToken' = Null
          /\ tokenExpiryTime' = Null
          /\ q.ret = Null
    ]_vars

\* C7: an exchange answer without access_token fails the call: an undefined
\* credential is never cached and never returned.
C7_NoUndefinedCredential ==
  /\ zohoAccessToken # Undefined
  /\ last.ret # Undefined

\* C8: the force-refresh entry point clears token and expiry, and the
\* acquire() it then makes always performs an exchange, whatever was cached.
C8_ForceRefreshAlwaysExchanges ==
  [][ /\ \A q \in After :
           (Began(q) /\ q.kind = "refresh") =>
             /\ zohoAccessToken' = Null
             /\ tokenExpiryTime' = Null
             /\ q.pc = "exchange"
             /\ q.exch = 1
      /\ \A r \in InFlight : \A q \in After :
           (Becomes(r, q) /\ r.kind = "refresh") =>
             /\ r.pc = "exchange"
             /\ q.pc \in {"done", "failed"}
             /\ q.exch = 1
             /\ q.probeReply = "none"
    ]_vars

\* C8 witness: a force-refresh made while the first token was still live
\* (the clock has not moved since it was cached) returned a second token.
C8_Witness ==
  /\ last.kind = "refresh" /\ last.pc = "done" /\ last.exch = 1
  /\ last.ret = 2 /\ clock = 1

\* C9 (as claimed): a call that begins when the upstream has already revoked
\* the cached credential never returns that credential.
C9_NeverReturnsRevoked ==
  (last.pc = "done" /\ last.staleTok # Null) => last.ret # last.staleTok

\* C9 (amended): in the build that probes (src/server.js) such a call makes
\* one exchange and returns the new credential; in the build without a probe
\* (src/index.js) it returns the revoked credential whenever the remembered
\* expiry has not passed, and exchanges only once it has.
C9_RecoversOnlyWithProbe ==
  (last.pc = "done" /\ last.staleTok # Null) =>
    IF variant = "server"
      THEN last.ret # last.staleTok /\ last.exch = 1 /\ last.ret \in 1..issued
      ELSE (last.exch = 0) <=> (last.ret = last.staleTok)

\* C9 witness: in src/server.js a call that found a revoked credential in the
\* cache has returned a newly exchanged one.
C9_Witness ==
  /\ variant = "server" /\ last.pc = "done" /\ last.staleTok # Null
  /\ last.probed = last.staleTok /\ last.ret \in 1..issued
  /\ last.ret # last.staleTok

\* A target's request was delivered: it answered with a status below 400.
Delivered(r) == r.kind = "http" /\ r.status < 400

C11_SuccessIffBelow400 ==
  (fpc = "responded" /\ Len(webhookUrls) > 0) =>
    /\ successCount = Cardinality({i \in 1..Len(webhookUrls) :
                         reply[i].kind = "http" /\ reply[i].status < 400})
    /\ route \in Validating =>
         failureCount = Cardinality({i \in 1..Len(webhookUrls) :
                           ~(reply[i].kind = "http" /\ reply[i].status < 400)})

\* C12: a target that answers 404 (or any 4xx) does not turn the route's
\* answer into an error: it is counted as a failure and its entry of the
\* detail list carries the status code it returned.
C12_FourXXRecordsStatusCode ==
  (fpc = "responded" /\ route = "vendors") =>
    \A i \in 1..Len(webhookUrls) :
      (reply[i].kind = "http" /\ reply[i].status \in 400..499) =>
        /\ httpStatus = 200
        /\ details[i].status = "failed"
        /\ details[i].statusCode = reply[i].status

\* C13: a route that has issued its requests answers only after every
\* target's request has been resolved (answered, failed or timed out); it is
\* never past its answer while some target is still unresolved.
C13_RespondsAfterAllResolved ==
  (fpc = "responded" /\ \E i \in 1..Len(webhookUrls) : sent[i]) =>
    /\ \A i \in 1..Len(webhookUrls) : sent[i] /\ reply[i] # Pending
    /\ Len(arrival) = Len(webhookUrls)

\* C13 witness: three targets, the first to resolve succeeded, another one
\* failed, and the route answered with all three resolved.
C13_Witness ==
  /\ fpc = "responded" /\ Len(webhookUrls) = 3 /\ Len(arrival) = 3
  /\ reply[arrival[1]].status = 200
  /\ reply[arrival[2]].kind = "timeout"
  /\ reply[arrival[3]].status = 500

\* C14: the detail list of the vendors route has exactly one entry per input
\* target, and entry i describes target i (its URL and its own outcome),
\* whatever the order in which the targets resolved.
C14_DetailsInInputOrder ==
  (fpc = "responded" /\ route = "vendors" /\ Len(webhookUrls) > 0) =>
    /\ Len(details) = Len(webhookUrls)
    /\ \A i \in 1..Len(webhookUrls) :
         /\ details[i].url = webhookUrls[i]
         /\ IF reply[i].kind = "http" /\ reply[i].status < 400
              THEN /\ details[i].status = "success"
                   /\ details[i].statusCode = reply[i].status
              ELSE /\ details[i].status = "failed"
                   /\ reply[i].kind = "timeout" =>
                        details[i].error = "timeout of 15000ms exceeded"

\* C14 witness: three targets resolved in the order 3, 1, 2 and the detail
\* list still describes them in the order 1, 2, 3.
C14_Witness ==
  /\ fpc = "responded" /\ route = "vendors"
  /\ webhookUrls = <<"https://hook.a", "https://hook.b", "https://hook.a">>
  /\ arrival = <<3, 1, 2>>
  /\ reply[1].status = 200 /\ reply[2].kind = "timeout" /\ reply[3].status = 404
  /\ details[1].url = "https://hook.a" /\ details[1].status = "success"
  /\ details[2].url = "https://hook.b" /\ details[2].status = "failed"
  /\ details[3].url = "https://hook.a" /\ details[3].status = "failed"

\* C15: an empty target list is handled alike at every call site: the answer
\* a route gives for an empty list is the answer every other call site gives
\* for one (all a zero report, or all a configuration error).
C15_EmptyListHandledAlike ==
  (fpc = "responded" /\ Len(webhookUrls) = 0) =>
    /\ httpStatus = EmptyListStatus(route)
    /\ \A rt \in AllRoutes : EmptyListStatus(rt) = httpStatus

\* C16: for every write route, the answer given when no targets are
\* configured differs from the answer given when targets are configured and
\* every one of them failed.
C16_EmptyDiffersFromAllFailed ==
  /\ (fpc = "responded" /\ Len(webhookUrls) = 0) => Answer = EmptyAnswer(route)
  /\ (/\ fpc = "responded"
      /\ Len(webhookUrls) > 0
      /\ \A i \in 1..Len(webhookUrls) :
           ~(reply[i].kind = "http" /\ reply[i].status < 400)) =>
       Answer # EmptyAnswer(route)

\* C17: webhook failures never fail the operation: a route that has issued
\* its requests answers 200 (success: true) whether none, some or all of the
\* targets failed; the failures only show in the counts of the report.
C17_WebhookFailuresNeverFail ==
  (fpc = "responded" /\ Len(webhookUrls) > 0) =>
    /\ httpStatus = 200
    /\ successCount <= Len(webhookUrls)
    /\ route \in Validating =>
         failureCount = Cardinality({i \in 1..Len(webhookUrls) : ~IsSuccess(reply[i])})

\* C17 witness: all three targets failed (a timeout, a transport error and a
\* 500) and the route still answered 200, with three failures counted.
C17_Witness ==
  /\ fpc = "responded" /\ Len(webhookUrls) = 3 /\ route = "claims"
  /\ reply[1].kind = "timeout" /\ reply[2].kind = "network" /\ reply[3].status = 500
  /\ httpStatus = 200 /\ successCount = 0 /\ failureCount = 3

\* C18: within one dispatch each target receives exactly one delivery
\* attempt: no target is ever sent to twice, a target whose request has
\* resolved (failed and timed out included) keeps that outcome and is not
\* sent to again, and when the route answers every target was tried once.
C18_OneAttemptPerTarget ==
  [][ /\ \A i \in 1..Len(webhookUrls) :
           /\ attempts'[i] <= 1
           /\ reply[i] # Pending =>
                (reply'[i] = reply[i] /\ attempts'[i] = attempts[i])
      /\ (fpc' = "responded" /\ \E i \in 1..Len(webhookUrls) : sent'[i]) =>
           \A i \in 1..Len(webhookUrls) : attempts'[i] = 1
    ]_vars

\* C18 witness: of three targets one timed out and one failed at the
\* transport level; the route answered with each target tried exactly once.
C18_Witness ==
  /\ fpc = "responded" /\ Len(webhookUrls) = 3
  /\ reply[1].kind = "timeout" /\ reply[2].kind = "network" /\ reply[3].status = 200
  /\ attempts = <<1, 1, 1>>
  /\ failureCount = 2

\* C19: when getZohoAccessToken fails, the answer of a CRM-calling route is
\* an authentication-failed condition of its own: it is not a success, and
\* it is not an answer the route also gives for a failed CRM request.
C19_AuthFailureDistinguishable ==
  (cpc = "responded" /\ acquireErr) =>
    /\ ~canswer.success
    /\ canswer.status # 200
    /\ \A r \in CrmReplies :
         ~CrmFulfilled(r) => canswer # CatchAnswer(croute, ErrorOf(r))

\* C20: a CRM search route whose request was answered 204 without a body
\* answers with success and an empty result list, never with an error.
C20_NoContentIsEmptySuccess ==
  (cpc = "responded" /\ croute # "vendorsPost" /\ crmReply.status = 204) =>
    /\ canswer.status = 200
    /\ canswer.success
    /\ canswer.results = 0
    /\ canswer.error = ""

\* C20 witness: the contact search was answered 204 by the CRM and answered
\* its caller with success and no suggestions.
C20_Witness ==
  /\ cpc = "responded" /\ croute = "contactsSearch"
  /\ crmReply = [kind |-> "http", status |-> 204, records |-> 0]
  /\ canswer = Ok(0)

\* C21: every acquire() call eventually completes, by returning or by
\* failing; so whenever calls are suspended at the token exchange, one of
\* them eventually returns or throws.
C21_AcquireCompletes ==
  (calls # EmptyBag) ~> (last # NoCall /\ last.pc \in {"done", "failed"})

\* C22: a call that finds the cache empty or expired starts an exchange of
\* its own, whatever other exchanges are under way; a successful exchange
\* writes the token and the expiry together, both from that exchange; the
\* pair changes in no other way except being cleared: so the cache holds the
\* pair of the exchange whose answer was processed last.
C22_EachExchangesLastWriterWins ==
  [][ /\ \A q \in After :
           (Began(q) /\ ~CacheLive(zohoAccessToken', tokenExpiryTime', clock)) =>
             (q.pc = "exchange" /\ q.exch = 1)
      /\ issued' # issued =>
           /\ last'.pc = "done"
           /\ last'.ret = issued'
           /\ zohoAccessToken' = issued'
           /\ tokenExpiryTime' = last'.now + FiftyFiveMinutes
      /\ <<zohoAccessToken', tokenExpiryTime'>> # <<zohoAccessToken, tokenExpiryTime>> =>
           \/ zohoAccessToken' = Null /\ tokenExpiryTime' = Null
           \/ issued' # issued
    ]_vars

\* C22 witness: two calls found the cache empty and each made an exchange;
\* the first token was cached at clock 1, the second answer was processed
\* later and the cache holds the second call's pair.
C22_Witness ==
  /\ last.pc = "done" /\ last.kind = "acquire" /\ last.exch = 1
  /\ last.probeReply = "none" /\ last.now = 1 /\ clock > 1
  /\ issued = 2 /\ last.ret = 2
  /\ zohoAccessToken = 2 /\ tokenExpiryTime = 1 + FiftyFiveMinutes
  /\ revoked = {}

\* C23: all targets are dispatched concurrently: the step that issues a
\* request issues the request to every target, at a moment when no outcome
\* is known yet; no target's outcome arrives while a request is unissued.
C23_DispatchedConcurrently ==
  [][ /\ (\E i \in 1..Len(webhookUrls) : sent'[i] /\ ~sent[i]) =>
           \A j \in 1..Len(webhookUrls) :
             sent'[j] /\ reply[j] = Pending /\ reply'[j] = Pending
      /\ (\E i \in 1..Len(webhookUrls) : reply'[i] # reply[i]) =>
           \A j \in 1..Len(webhookUrls) : sent[j]
    ]_vars

\* C23 witness: three requests are out; the third target has answered while
\* the first two are still unresolved.
C23_Witness ==
  /\ fpc = "await" /\ Len(webhookUrls) = 3
  /\ \A i \in 1..3 : sent[i]
  /\ arrival = <<3>>
  /\ reply[1] = Pending /\ reply[2] = Pending /\ reply[3].status = 200

\* C24: in POST /api/vendors a webhook request is sent only after
\* getZohoAccessToken returned and the vendor create/update call succeeded;
\* when either fails the route answers with an error (401 or 500) and no
\* request has been sent to any target.
C24_FanoutOnlyAfterCrmSuccess ==
  /\ (\E i \in 1..Len(webhookUrls) : sent[i] \/ attempts[i] > 0) =>
       (~acquireErr /\ CrmFulfilled(crmReply))
  /\ fpc # "idle" => (~acquireErr /\ CrmFulfilled(crmReply))
  /\ (cpc = "responded" /\ (acquireErr \/ crmReply # CrmPending)) =>
       /\ ~canswer.success
       /\ canswer.status = (IF acquireErr THEN 401 ELSE 500)
       /\ fpc = "idle"
       /\ httpStatus = 0
       /\ \A i \in 1..Len(webhookUrls) : ~sent[i] /\ attempts[i] = 0

\* C24 witness: three targets are configured, the vendor create call was
\* answered 500 by the CRM, the route answered 500 and sent nothing.
C24_Witness ==
  /\ cpc = "responded" /\ Len(webhookUrls) = 3
  /\ crmReply.status = 500 /\ canswer.status = 500
  /\ \A i \in 1..3 : ~sent[i]

C26_ExpiryWithinLifetimeOfArrival ==
  [][ /\ (tokenExpiryTime' # tokenExpiryTime /\ Truthy(tokenExpiryTime')) =>
           /\ last = NoCall
           /\ last'.pc = "done"
           /\ last'.exch = 1
           /\ zohoAccessToken' = last'.ret
           /\ last'.now <= clock
           /\ tokenExpiryTime' <= clock + FiftyFiveMinutes
      /\ \A q \in After :
           (Began(q) /\ q.kind = "acquire" /\ q.exch = 0) =>
             clock < tokenExpiryTime
    ]_vars

\* C26 witness: an exchange that began at clock 1 was answered after the
\* clock had advanced by almost 55 minutes; the token it cached expires
\* 55 minutes after the call began, that is 1 ms after it arrived.
C26_Witness ==
  /\ last.pc = "done" /\ last.exch = 1 /\ last.now = 1
  /\ clock = FiftyFiveMinutes
  /\ zohoAccessToken = last.ret
  /\ tokenExpiryTime = 1 + FiftyFiveMinutes

\* C27: a call whose exchange or probe fails does not remove a credential
\* that another call's successful exchange cached while the failing call was
\* suspended: a failed exchange that went straight to the token endpoint
\* leaves alone a token cached since it began, and a failed probe leaves
\* alone a cached token other than the one it probed.
C27_FailureKeepsOthersCredential ==
  [][ \A r \in InFlight : \A q \in After :
        (Becomes(r, q) /\ Truthy(zohoAccessToken)) =>
          /\ (/\ r.pc = "exchange"
              /\ q.pc = "failed"
              /\ r.probeReply = "none"
              /\ cachedAt >= r.now) => zohoAccessToken' = zohoAccessToken
          /\ (/\ r.pc = "probe"
              /\ q.probeReply = "fail"
              /\ r.probed # zohoAccessToken) => zohoAccessToken' = zohoAccessToken
    ]_vars

\* C28: when GET /api/zoho/refresh-token answers with success, the
\* tokenExpiry it reports is set and is the expiry of the credential its own
\* exchange cached: the start of that exchange plus 55 minutes, whatever
\* other acquire() calls and force-refresh requests ran meanwhile.
C28_RefreshReportsOwnExpiry ==
  (last.kind = "refresh" /\ last.pc = "done") =>
    /\ Truthy(RefreshTokenExpiry)
    /\ RefreshTokenExpiry = last.now + FiftyFiveMinutes
    /\ last.exch = 1
    /\ last.ret = zohoAccessToken
    /\ last.ret \in 1..issued

\* C28 witness: a force-refresh that began at clock 1 returns the second
\* token after the clock has advanced, while another call is still suspended
\* at its exchange; it reports the expiry 1 + 55 minutes.
C28_Witness ==
  /\ last.kind = "refresh" /\ last.pc = "done" /\ last.now = 1 /\ last.ret = 2
  /\ clock > 1
  /\ \E r \in InFlight : r.pc = "exchange"
  /\ RefreshTokenExpiry = 1 + FiftyFiveMinutes

\* C29: POST /api/claims validates before it delivers: a submission without
\* supplierName is answered 400 and no webhook request is ever sent for it;
\* only a submission with supplierName gets past the check.
C29_ValidatesBeforeDelivery ==
  /\ ~NonEmpty(supplierName) =>
       /\ fpc \in {"validate", "rejected"}
       /\ \A i \in 1..Len(webhookUrls) :
            ~sent[i] /\ attempts[i] = 0 /\ reply[i] = Pending
  /\ fpc = "rejected" => (httpStatus = 400 /\ ~NonEmpty(supplierName))
  /\ (fpc # "validate" /\ ~NonEmpty(supplierName)) => httpStatus = 400

\* C29 witness: three targets are configured, the submission has no
\* supplierName, the route answered 400 and sent nothing.
C29_Witness ==
  /\ route = "claims" /\ fpc = "rejected" /\ supplierName = ""
  /\ Len(webhookUrls) = 3 /\ httpStatus = 400
  /\ \A i \in 1..3 : ~sent[i]

\* JS: a string made only of whitespace and commas (the empty string included)
Blank(env) == \A i \in 1..Len(env.text) : env.text[i] \in {" ", ","}

\* C30: the target list resolved from the comma-separated configuration value
\* never contains an empty URL; a value that is unset, empty or made only of
\* whitespace and commas resolves to the empty list, and an empty segment such
\* as a trailing comma produces no target.
C30_NoEmptyTarget ==
  fpc # "resolve" =>
    /\ \A i \in 1..Len(webhookUrls) : webhookUrls[i] # <<>>
    /\ (~envWebhookUrls.set \/ Blank(envWebhookUrls)) => webhookUrls = <<>>

====
